---- MODULE Spec2Model ----
(***************************************************************************)
(* Model of safe-transmute's `base` (unchecked) and `full` (checked)       *)
(* transmutation functions.                                                *)
(*                                                                         *)
(* A byte slice is a start address and a sequence of bytes.  A target type *)
(* is a name with its size_of and align_of.  A typed view is the sequence  *)
(* of its elements, each element being the size_of(T) bytes it is made of, *)
(* so that the element count, the order and the bytes covered are all      *)
(* visible in a result.                                                    *)
(***************************************************************************)
EXTENDS Integers, Sequences, FiniteSets, TLC

\* ------------------------------------------------------------------ bounds
\* Longest byte slice handed to an entry point.
MaxLen == 5
\* Largest start address of a byte slice or of a vector's storage.
MaxAddr == 8
\* Largest capacity, in elements, of a vector.
MaxCap == 3

\* Byte values (two are enough to tell elements and their order apart).
ByteVals == {0, 1}

\* ------------------------------------------------------------------- types
\* Target types: name, size_of, align_of.  Zero-sized types are left out:
\* every element size is positive.
Types ==
    { [name |-> "u8",    size |-> 1, align |-> 1],
      [name |-> "i8",    size |-> 1, align |-> 1],
      [name |-> "u16",   size |-> 2, align |-> 2],
      [name |-> "i16",   size |-> 2, align |-> 2],
      [name |-> "u8x2",  size |-> 2, align |-> 1],
      [name |-> "u8x3",  size |-> 3, align |-> 1],
      [name |-> "u32",   size |-> 4, align |-> 4],
      [name |-> "u16x2", size |-> 4, align |-> 2],
      [name |-> "u64",   size |-> 8, align |-> 8] }

size_of(T) == T.size
align_of(T) == T.align

\* The guards of the guard module.
Guards == {"PermissiveGuard", "SingleValueGuard", "SingleManyGuard", "PedanticGuard"}

\* ------------------------------------------------------------- byte slices
SeqsUpTo(S, n) == UNION { [1..k -> S] : k \in 0..n }

\* Every byte slice an entry point is called with.  A slice's pointer is
\* never null, so addresses start at 1.
Buffers == [addr : 1..MaxAddr, bytes : SeqsUpTo(ByteVals, MaxLen)]

NoBuffer == [addr |-> 1, bytes |-> <<>>]

\* ----------------------------------------------------------------- results
\* Result<_, Error>: tag is Ok or Err; an Ok carries the elements of the view
\* (kind "view", with the pointer the view starts at) or the one value (kind
\* "value"); an Err carries the reason and, for the guard errors, the
\* required and actual byte counts.  Tag UB stands for the outcomes of
\* undefined behaviour other than the plain one; tag Panic for a panic.
OkUnit == [tag |-> "Ok", kind |-> "unit", reason |-> "None", required |-> 0,
           actual |-> 0, ptr |-> 0, elems |-> <<>>]

OkValue(v) == [tag |-> "Ok", kind |-> "value", reason |-> "None", required |-> 0,
               actual |-> 0, ptr |-> 0, elems |-> <<v>>]

OkView(p, es) == [tag |-> "Ok", kind |-> "view", reason |-> "None", required |-> 0,
                  actual |-> 0, ptr |-> p, elems |-> es]

GuardError(why, req, act) ==
    [tag |-> "Err", kind |-> "guard", reason |-> why, required |-> req,
     actual |-> act, ptr |-> 0, elems |-> <<>>]

UnalignedError == [tag |-> "Err", kind |-> "unaligned", reason |-> "Unaligned",
                   required |-> 0, actual |-> 0, ptr |-> 0, elems |-> <<>>]

Undefined == [tag |-> "UB", kind |-> "none", reason |-> "None", required |-> 0,
              actual |-> 0, ptr |-> 0, elems |-> <<>>]

Panic == [tag |-> "Panic", kind |-> "none", reason |-> "None", required |-> 0,
          actual |-> 0, ptr |-> 0, elems |-> <<>>]

NoResult == [tag |-> "None", kind |-> "none", reason |-> "None", required |-> 0,
             actual |-> 0, ptr |-> 0, elems |-> <<>>]

\* ------------------------------------------------------------------ guards
\* G::check::<T>(bytes): Ok(()) or the guard's error.
PermissiveGuardCheck(T, buf) == OkUnit

SingleValueGuardCheck(T, buf) ==
    IF Len(buf.bytes) < size_of(T)
    THEN GuardError("NotEnoughBytes", size_of(T), Len(buf.bytes))
    ELSE IF Len(buf.bytes) > size_of(T)
    THEN GuardError("InexactByteCount", size_of(T), Len(buf.bytes))
    ELSE OkUnit

SingleManyGuardCheck(T, buf) ==
    IF Len(buf.bytes) < size_of(T)
    THEN GuardError("NotEnoughBytes", size_of(T), Len(buf.bytes))
    ELSE OkUnit

\* The length test comes first, so an empty slice is NotEnoughBytes, as the
\* test too_short pins down (required 2, actual 0 for u16).
PedanticGuardCheck(T, buf) ==
    IF Len(buf.bytes) < size_of(T)
    THEN GuardError("NotEnoughBytes", size_of(T), Len(buf.bytes))
    ELSE IF Len(buf.bytes) % size_of(T) # 0
    THEN GuardError("InexactByteCount", size_of(T), Len(buf.bytes))
    ELSE OkUnit

GuardCheck(G, T, buf) ==
    CASE G = "PermissiveGuard"  -> PermissiveGuardCheck(T, buf)
      [] G = "SingleValueGuard" -> SingleValueGuardCheck(T, buf)
      [] G = "SingleManyGuard"  -> SingleManyGuardCheck(T, buf)
      [] G = "PedanticGuard"    -> PedanticGuardCheck(T, buf)

\* --------------------------------------------------------------- alignment
\* check_alignment::<_, T>(bytes): Ok(()) iff the slice's address is a
\* multiple of align_of(T).
check_alignment(T, buf) ==
    IF buf.addr % align_of(T) = 0 THEN OkUnit ELSE UnalignedError

check_alignment_mut(T, buf) ==
    IF buf.addr % align_of(T) = 0 THEN OkUnit ELSE UnalignedError

\* ------------------------------------------------------------ base module
\* slice::from_raw_parts(ptr as *const T, n): the n elements of size_of(T)
\* bytes each, starting at the slice's first byte.  Bytes past the end of
\* the slice are not the slice's: reading them is marked by the byte -1.
ByteAt(buf, i) == IF i <= Len(buf.bytes) THEN buf.bytes[i] ELSE -1

from_raw_parts(T, buf, n) ==
    [i \in 1..n |-> [j \in 1..size_of(T) |-> ByteAt(buf, (i - 1) * size_of(T) + j)]]

\* slice::from_raw_parts on a pointer that is not aligned for T is undefined
\* behaviour: the call may behave as if the pointer were fine, or not.
Outcomes(T, buf, r) ==
    IF r.tag = "Ok" /\ buf.addr % align_of(T) # 0 THEN {r, Undefined} ELSE {r}

\* Mutant: from_bytes guarded by SingleValueGuard instead of SingleManyGuard.
base_from_bytes_exact(T, buf) ==
    LET g == SingleValueGuardCheck(T, buf)
    IN  IF g.tag = "Err" THEN g
        ELSE OkValue(from_raw_parts(T, buf, 1)[1])

base_from_bytes(T, buf) ==
    LET g == SingleManyGuardCheck(T, buf)
    IN  IF g.tag = "Err" THEN g
        ELSE OkValue(from_raw_parts(T, buf, 1)[1])

base_from_bytes_pedantic(T, buf) ==
    LET g == SingleValueGuardCheck(T, buf)
    IN  IF g.tag = "Err" THEN g
        ELSE OkValue(from_raw_parts(T, buf, 1)[1])

\* Mutant: the element count is the byte length, not divided by size_of(T).
base_transmute_many_count_bytes(T, G, buf) ==
    LET g == GuardCheck(G, T, buf)
    IN  IF g.tag = "Err" THEN g
        ELSE OkView(buf.addr, from_raw_parts(T, buf, Len(buf.bytes)))

\* Mutant: the guard's answer is dropped instead of propagated with `?`.
base_transmute_many_unguarded(T, G, buf) ==
    OkView(buf.addr, from_raw_parts(T, buf, Len(buf.bytes) \div size_of(T)))

base_transmute_many(T, G, buf) ==
    LET g == GuardCheck(G, T, buf)
    IN  IF g.tag = "Err" THEN g
        ELSE OkView(buf.addr, from_raw_parts(T, buf, Len(buf.bytes) \div size_of(T)))

base_transmute_many_mut(T, G, buf) ==
    LET g == GuardCheck(G, T, buf)
    IN  IF g.tag = "Err" THEN g
        ELSE OkView(buf.addr, from_raw_parts(T, buf, Len(buf.bytes) \div size_of(T)))

\* Mutant: the permissive form instantiated with the pedantic guard.
base_transmute_many_permissive_pedantic(T, buf) ==
    LET r == base_transmute_many(T, "PedanticGuard", buf)
    IN  IF r.tag = "Ok" THEN r ELSE Panic

\* .expect("permissive guard should never fail"): the view, or a panic.
base_transmute_many_permissive(T, buf) ==
    LET r == base_transmute_many(T, "PermissiveGuard", buf)
    IN  IF r.tag = "Ok" THEN r ELSE Panic

\* --------------------------------------------------------- trivial module
\* The TriviallyTransmutable-bounded forms of the base functions.
transmute_trivial(T, buf) == base_from_bytes(T, buf)

transmute_trivial_many(T, G, buf) == base_transmute_many(T, G, buf)

transmute_trivial_many_mut(T, G, buf) == base_transmute_many_mut(T, G, buf)

\* ------------------------------------------------------------ full module
full_transmute_one(T, buf) ==
    LET a == check_alignment(T, buf)
    IN  IF a.tag = "Err" THEN a
        ELSE transmute_trivial(T, buf)

\* Mutant: the single-value guard is left out.
full_transmute_one_pedantic_unguarded(T, buf) ==
    LET a == check_alignment(T, buf)
    IN  IF a.tag = "Err" THEN a
        ELSE transmute_trivial(T, buf)

\* The guard is evaluated first here, the alignment second.
full_transmute_one_pedantic(T, buf) ==
    LET g == SingleValueGuardCheck(T, buf)
        a == check_alignment(T, buf)
    IN  IF g.tag = "Err" THEN g
        ELSE IF a.tag = "Err" THEN a
        ELSE transmute_trivial(T, buf)

\* Mutant: the alignment check is left out.
full_transmute_many_unchecked(T, G, buf) ==
    transmute_trivial_many(T, G, buf)

full_transmute_many(T, G, buf) ==
    LET a == check_alignment(T, buf)
    IN  IF a.tag = "Err" THEN a
        ELSE transmute_trivial_many(T, G, buf)

full_transmute_many_permissive(T, buf) ==
    full_transmute_many(T, "PermissiveGuard", buf)

\* Mutant: the pedantic wrapper instantiated with the permissive guard.
full_transmute_many_pedantic_lenient(T, buf) ==
    full_transmute_many(T, "PermissiveGuard", buf)

full_transmute_many_pedantic(T, buf) ==
    full_transmute_many(T, "PedanticGuard", buf)

full_transmute_many_mut(T, G, buf) ==
    LET a == check_alignment_mut(T, buf)
    IN  IF a.tag = "Err" THEN a
        ELSE transmute_trivial_many_mut(T, G, buf)

full_transmute_many_permissive_mut(T, buf) ==
    full_transmute_many_mut(T, "PermissiveGuard", buf)

full_transmute_many_pedantic_mut(T, buf) ==
    full_transmute_many_mut(T, "PedanticGuard", buf)

\* ----------------------------------------------------------------- vectors
\* A Vec<S> handle: the storage pointer, the length and the capacity in
\* elements, and the element type.  The bytes of the storage are kept apart
\* (heap): a handle's contents are the first len * size_of(elem) of them.
NoVec == [ptr |-> 0, len |-> 0, cap |-> 0, elem |-> CHOOSE T \in Types : T.name = "u8"]

\* Two values per element type: all bytes zero, or the first byte one.
ElemVals(T) == { [j \in 1..size_of(T) |-> 0],
                 [j \in 1..size_of(T) |-> IF j = 1 THEN 1 ELSE 0] }

\* The bytes of a sequence of elements of `size` bytes each.
Flatten(es, size) ==
    [k \in 1..(Len(es) * size) |-> es[((k - 1) \div size) + 1][((k - 1) % size) + 1]]

\* A vector's storage pointer is never null and is aligned for its elements.
VecPtrs(S) == {a \in 1..MaxAddr : a % align_of(S) = 0}

\* The bytes a handle claims as its elements; -1 marks a byte the storage
\* does not hold.
Contents(v, mem) ==
    [k \in 1..(v.len * size_of(v.elem)) |-> IF k <= Len(mem) THEN mem[k] ELSE -1]

\* Vec::from_raw_parts(ptr as *mut T, length, capacity)
Vec_from_raw_parts(T, p, length, capacity) ==
    [ptr |-> p, len |-> length, cap |-> capacity, elem |-> T]

NoParts == [capacity |-> 0, len |-> 0, ptr |-> 0]

\* Result<Vec<T>, Error<S, T>>
OkVec(v) == [tag |-> "Ok", reason |-> "None", vec |-> v]

\* IncompatibleVecTargetError::new(vec).into(): the error owns the vector.
IncompatibleVecTargetError(v) == [tag |-> "Err", reason |-> "IncompatibleVecTarget", vec |-> v]

NoVecResult == [tag |-> "None", reason |-> "None", vec |-> NoVec]

\* Mutant: `&&` for `||`, so a difference in alignment alone is let through.
full_transmute_vec_incompatible_both(S, T) ==
    align_of(S) # align_of(T) /\ size_of(S) # size_of(T)

\* forget(vec): the handle is consumed without running its destructor, so
\* it is no longer a live owner of the storage (n: the live owners).
\* Mutant: the call of forget is missing.
forget_missing(n) == n

forget(n) == n - 1

\* full::transmute_vec, the test of its first line.
full_transmute_vec_incompatible(S, T) ==
    align_of(S) # align_of(T) \/ size_of(S) # size_of(T)

\* full::transmute_vec, the locals it reads from the source vector.
full_transmute_vec_parts(v) ==
    [capacity |-> v.cap, len |-> v.len, ptr |-> v.ptr]

\* Mutant: length and capacity swapped in the call of Vec::from_raw_parts.
full_transmute_vec_build_swapped(T, l) ==
    OkVec(Vec_from_raw_parts(T, l.ptr, l.capacity, l.len))

\* full::transmute_vec, the vector it builds from the locals.
full_transmute_vec_build(T, l) ==
    OkVec(Vec_from_raw_parts(T, l.ptr, l.len, l.capacity))

\* base::transmute_vec, the locals it computes from the source vector:
\* capacity and length in units of T, usize division rounding down.  (A
\* vector's capacity in bytes is at most isize::MAX, so the products do not
\* overflow usize.)
\* Mutant: the sizes of S and T exchanged.
base_transmute_vec_parts_inverted(v, T) ==
    [capacity |-> (v.cap * size_of(T)) \div size_of(v.elem),
     len |-> (v.len * size_of(T)) \div size_of(v.elem),
     ptr |-> v.ptr]

base_transmute_vec_parts(v, T) ==
    [capacity |-> (v.cap * size_of(v.elem)) \div size_of(T),
     len |-> (v.len * size_of(v.elem)) \div size_of(T),
     ptr |-> v.ptr]

\* base::transmute_vec, the vector it builds and returns (a Vec<T>, no
\* Result: recorded as an Ok).
base_transmute_vec_build(T, l) ==
    OkVec(Vec_from_raw_parts(T, l.ptr, l.len, l.capacity))

\* The layout a handle releases its storage with: size in bytes, alignment.
Layout(v) == [size |-> v.cap * size_of(v.elem), align |-> align_of(v.elem)]

\* ------------------------------------------------------------------- state
\* One call on a byte slice: the guard and target type it is instantiated
\* with, the slice it is given (input), the entry point called ("none" before the
\* call) and what it returned.
VARIABLES op, guard, target, input, result

\* One caller's vector through calls of full::transmute_vec: the vector handed
\* to the call (vec), the bytes of its storage (heap), the target type
\* (vtarget), the position in the call (vpc), the locals read from the
\* source vector (parts), the number of live Vec handles owning the storage
\* (owners), how many times the storage has been released (released), what
\* the call returned (vresult), and the calls completed
\* before this one (history).
VARIABLES vec, heap, vtarget, vpc, parts, owners, released, vresult, history

callvars == <<op, guard, target, input, result>>

vecvars == <<vec, heap, vtarget, vpc, parts, owners, released, vresult, history>>

vars == <<op, guard, target, input, result,
          vec, heap, vtarget, vpc, parts, owners, released, vresult, history>>

\* No vector at all: the state of the vector part while slices are checked.
VecOff ==
    /\ vec = NoVec
    /\ heap = <<>>
    /\ vtarget = NoVec.elem
    /\ vpc = "off"
    /\ parts = NoParts
    /\ owners = 0
    /\ released = 0
    /\ vresult = NoVecResult
    /\ history = <<>>

Init ==
    /\ op = "none"
    /\ guard \in Guards
    /\ target \in Types
    /\ input \in Buffers
    /\ result = NoResult
    /\ VecOff

\* The call of entry point `name` with guard G: its outcome is recorded.
Call(name, G, r) ==
    /\ op' = name
    /\ guard' = G
    /\ result' \in Outcomes(target, input, r)
    /\ UNCHANGED <<target, input>>
    /\ UNCHANGED vecvars

FromBytes ==
    /\ op = "none"
    /\ Call("base::from_bytes", "SingleManyGuard", base_from_bytes(target, input))

FromBytesPedantic ==
    /\ op = "none"
    /\ Call("base::from_bytes_pedantic", "SingleValueGuard", base_from_bytes_pedantic(target, input))

BaseTransmuteMany ==
    /\ op = "none"
    /\ Call("base::transmute_many", guard, base_transmute_many(target, guard, input))

BaseTransmuteManyMut ==
    /\ op = "none"
    /\ Call("base::transmute_many_mut", guard, base_transmute_many_mut(target, guard, input))

BaseTransmuteManyPermissive ==
    /\ op = "none"
    /\ Call("base::transmute_many_permissive", "PermissiveGuard", base_transmute_many_permissive(target, input))

TransmuteOne ==
    /\ op = "none"
    /\ Call("full::transmute_one", "SingleManyGuard", full_transmute_one(target, input))

TransmuteOnePedantic ==
    /\ op = "none"
    /\ Call("full::transmute_one_pedantic", "SingleValueGuard", full_transmute_one_pedantic(target, input))

TransmuteMany ==
    /\ op = "none"
    /\ Call("full::transmute_many", guard, full_transmute_many(target, guard, input))

TransmuteManyPermissive ==
    /\ op = "none"
    /\ Call("full::transmute_many_permissive", "PermissiveGuard", full_transmute_many_permissive(target, input))

TransmuteManyPedantic ==
    /\ op = "none"
    /\ Call("full::transmute_many_pedantic", "PedanticGuard", full_transmute_many_pedantic(target, input))

TransmuteManyMut ==
    /\ op = "none"
    /\ Call("full::transmute_many_mut", guard, full_transmute_many_mut(target, guard, input))

TransmuteManyPermissiveMut ==
    /\ op = "none"
    /\ Call("full::transmute_many_permissive_mut", "PermissiveGuard", full_transmute_many_permissive_mut(target, input))

TransmuteManyPedanticMut ==
    /\ op = "none"
    /\ Call("full::transmute_many_pedantic_mut", "PedanticGuard", full_transmute_many_pedantic_mut(target, input))

\* check_alignment::<_, T>(bytes) and check_alignment_mut::<_, T>(bytes),
\* called on their own as the tests smoke_check_alignment_from_4/_8 do.
CheckAlignment ==
    /\ op = "none"
    /\ op' = "align::check_alignment"
    /\ result' = check_alignment(target, input)
    /\ UNCHANGED <<guard, target, input>>
    /\ UNCHANGED vecvars

CheckAlignmentMut ==
    /\ op = "none"
    /\ op' = "align::check_alignment_mut"
    /\ result' = check_alignment_mut(target, input)
    /\ UNCHANGED <<guard, target, input>>
    /\ UNCHANGED vecvars

Next ==
    \/ CheckAlignment
    \/ CheckAlignmentMut
    \/ FromBytes
    \/ FromBytesPedantic
    \/ BaseTransmuteMany
    \/ BaseTransmuteManyMut
    \/ BaseTransmuteManyPermissive
    \/ TransmuteOne
    \/ TransmuteOnePedantic
    \/ TransmuteMany
    \/ TransmuteManyPermissive
    \/ TransmuteManyPedantic
    \/ TransmuteManyMut
    \/ TransmuteManyPermissiveMut
    \/ TransmuteManyPedanticMut

Spec == Init /\ [][Next]_vars

\* ------------------------------------------------------- vector transitions
\* Calls of full::transmute_vec a caller chains on one vector.
MaxCalls == 2

VecInit ==
    /\ op = "off"
    /\ guard = "none"
    /\ target = NoVec.elem
    /\ input = NoBuffer
    /\ result = NoResult
    /\ \E S \in Types, capacity \in 0..MaxCap :
         \E length \in 0..capacity, p \in VecPtrs(S) :
           \E es \in [1..length -> ElemVals(S)] :
             /\ vec = Vec_from_raw_parts(S, p, length, capacity)
             /\ heap = Flatten(es, size_of(S))
    /\ vtarget \in Types
    /\ vpc = "call"
    /\ parts = NoParts
    /\ owners = 1
    /\ released = 0
    /\ vresult = NoVecResult
    /\ history = <<>>

\* if align_of::<S>() != align_of::<T>() || size_of::<S>() != size_of::<T>()
\*     { return Err(IncompatibleVecTargetError::new(vec).into()); }
TransmuteVecReject ==
    /\ vpc = "call"
    /\ full_transmute_vec_incompatible(vec.elem, vtarget)
    /\ vresult' = IncompatibleVecTargetError(vec)
    /\ vpc' = "done"
    /\ UNCHANGED <<vec, heap, vtarget, parts, owners, history, released>>
    /\ UNCHANGED callvars

\* let capacity = vec.capacity(); let len = vec.len(); let ptr = vec.as_mut_ptr();
TransmuteVecParts ==
    /\ vpc = "call"
    /\ ~full_transmute_vec_incompatible(vec.elem, vtarget)
    /\ parts' = full_transmute_vec_parts(vec)
    /\ vpc' = "parts"
    /\ UNCHANGED <<vec, heap, vtarget, owners, vresult, history, released>>
    /\ UNCHANGED callvars

\* forget(vec): the source handle no longer owns the storage.
TransmuteVecForget ==
    /\ vpc = "parts"
    /\ owners' = forget(owners)
    /\ vpc' = "forgotten"
    /\ UNCHANGED <<vec, heap, vtarget, parts, vresult, history, released>>
    /\ UNCHANGED callvars

\* Ok(Vec::from_raw_parts(ptr as *mut T, len, capacity)): a new owning handle.
TransmuteVecFromRawParts ==
    /\ vpc = "forgotten"
    /\ vresult' = full_transmute_vec_build(vtarget, parts)
    /\ owners' = owners + 1
    /\ vpc' = "done"
    /\ UNCHANGED <<vec, heap, vtarget, parts, history, released>>
    /\ UNCHANGED callvars

\* The caller takes the vector out of the result (the Ok vector, or the one
\* the error gives back) and transmutes it again.
TransmuteVecAgain ==
    /\ vpc = "done"
    /\ Len(history) + 1 < MaxCalls
    /\ history' = Append(history, [from |-> vec, to |-> vtarget, tag |-> vresult.tag])
    /\ vec' = vresult.vec
    /\ vtarget' \in Types
    /\ vpc' = "call"
    /\ parts' = NoParts
    /\ vresult' = NoVecResult
    /\ UNCHANGED <<heap, owners, released>>
    /\ UNCHANGED callvars

VecNext ==
    \/ TransmuteVecReject
    \/ TransmuteVecParts
    \/ TransmuteVecForget
    \/ TransmuteVecFromRawParts
    \/ TransmuteVecAgain

VecSpec == VecInit /\ [][VecNext]_vars

\* ----------------------------------------------- base::transmute_vec steps
\* let ptr = vec.as_mut_ptr();
\* let capacity = vec.capacity() * size_of::<S>() / size_of::<T>();
\* let len = vec.len() * size_of::<S>() / size_of::<T>();
BaseTransmuteVecParts ==
    /\ vpc = "base_call"
    /\ parts' = base_transmute_vec_parts(vec, vtarget)
    /\ vpc' = "base_parts"
    /\ UNCHANGED <<vec, heap, vtarget, owners, released, vresult, history>>
    /\ UNCHANGED callvars

\* forget(vec);
BaseTransmuteVecForget ==
    /\ vpc = "base_parts"
    /\ owners' = forget(owners)
    /\ vpc' = "base_forgotten"
    /\ UNCHANGED <<vec, heap, vtarget, parts, released, vresult, history>>
    /\ UNCHANGED callvars

\* Vec::from_raw_parts(ptr as *mut T, len, capacity): a new owning handle.
BaseTransmuteVecFromRawParts ==
    /\ vpc = "base_forgotten"
    /\ vresult' = base_transmute_vec_build(vtarget, parts)
    /\ owners' = owners + 1
    /\ vpc' = "base_done"
    /\ UNCHANGED <<vec, heap, vtarget, parts, released, history>>
    /\ UNCHANGED callvars

\* The storage as it was allocated: the first vector of the chain of calls.
Allocated == IF history = <<>> THEN vec ELSE history[1].from

\* A live handle is dropped after the call (the returned vector going out
\* of scope in the caller, as at the end of the doc examples' statements):
\* its destructor releases the storage.  Releasing with a layout other than
\* the one allocated is undefined behaviour (the Safety section of
\* base::transmute_vec).
DropVec ==
    /\ vpc \in {"done", "base_done", "dropped"}
    /\ owners > 0
    /\ owners' = owners - 1
    /\ released' = released + 1
    /\ vpc' \in IF Layout(vresult.vec) = Layout(Allocated)
               THEN {"dropped"} ELSE {"dropped", "ub"}
    /\ UNCHANGED <<vec, heap, vtarget, parts, vresult, history>>
    /\ UNCHANGED callvars

\* A vector handed to full::transmute_vec or to base::transmute_vec.
AnyVecInit ==
    /\ op = "off"
    /\ guard = "none"
    /\ target = NoVec.elem
    /\ input = NoBuffer
    /\ result = NoResult
    /\ \E S \in Types, capacity \in 0..MaxCap :
         \E length \in 0..capacity, p \in VecPtrs(S) :
           \E es \in [1..length -> ElemVals(S)] :
             /\ vec = Vec_from_raw_parts(S, p, length, capacity)
             /\ heap = Flatten(es, size_of(S))
    /\ vtarget \in Types
    /\ vpc \in {"call", "base_call"}
    /\ parts = NoParts
    /\ owners = 1
    /\ released = 0
    /\ vresult = NoVecResult
    /\ history = <<>>

AnyVecNext ==
    \/ TransmuteVecReject
    \/ TransmuteVecParts
    \/ TransmuteVecForget
    \/ TransmuteVecFromRawParts
    \/ TransmuteVecAgain
    \/ BaseTransmuteVecParts
    \/ BaseTransmuteVecForget
    \/ BaseTransmuteVecFromRawParts
    \/ DropVec

AnyVecSpec == AnyVecInit /\ [][AnyVecNext]_vars

\* ------------------------------------------------------- property helpers
FullOneOps == {"full::transmute_one", "full::transmute_one_pedantic"}

FullManyOps == {"full::transmute_many", "full::transmute_many_permissive",
                "full::transmute_many_pedantic", "full::transmute_many_mut",
                "full::transmute_many_permissive_mut", "full::transmute_many_pedantic_mut"}

FullOps == FullOneOps \cup FullManyOps

BaseManyOps == {"base::transmute_many", "base::transmute_many_mut"}

\* The call's byte length, element size, and whether its slice is aligned.
L == Len(input.bytes)
E == size_of(target)
Aligned == input.addr % align_of(target) = 0

\* The result's elements are, in order, the leading E-byte chunks of the slice.
ElemsInInputOrder ==
    \A i \in 1..Len(result.elems) :
        /\ i * E <= L
        /\ result.elems[i] = SubSeq(input.bytes, (i - 1) * E + 1, i * E)

C2_UnalignedReportedFirst ==
    (op \in FullOps /\ ~Aligned) => result.reason = "Unaligned"

\* The calls for which the pedantic guard decides the length.
PedanticManyCall ==
    /\ guard = "PedanticGuard"
    /\ op \in FullManyOps \cup BaseManyOps

\* C3: on an aligned slice of L >= E bytes the pedantic many-element view is
\* Ok with exactly L / E elements in input order when E divides L, and is
\* the error InexactByteCount with required = E and actual = L otherwise.
C3_PedanticExactMultiple ==
    (PedanticManyCall /\ Aligned /\ L >= E) =>
        /\ L % E = 0 =>
              /\ result.tag = "Ok"
              /\ Len(result.elems) = L \div E
              /\ ElemsInInputOrder
        /\ L % E # 0 => result = GuardError("InexactByteCount", E, L)

C3_Witness ==
    /\ op = "full::transmute_many_pedantic"
    /\ result.tag = "Ok"
    /\ Len(result.elems) = 2
    /\ result.elems[1] # result.elems[2]
    /\ E = 2

\* C4 as stated: the pedantic many-element view of an empty slice is Ok
\* with an empty view.
C4_EmptyPedanticIsOk ==
    (PedanticManyCall /\ Aligned /\ L = 0) =>
        (result.tag = "Ok" /\ result.elems = <<>>)

\* C4, amended: the pedantic many-element view of an empty slice is an
\* error, never an empty view: NotEnoughBytes with required = E and
\* actual = 0 (Unaligned when a checked entry point is given an empty slice
\* at an unaligned address).
C4_EmptyPedanticIsNotEnoughBytes ==
    (PedanticManyCall /\ L = 0) =>
        /\ result.tag = "Err"
        /\ (Aligned \/ op \in BaseManyOps) =>
              result = GuardError("NotEnoughBytes", E, 0)

C4_Witness ==
    /\ op = "full::transmute_many_pedantic"
    /\ L = 0
    /\ Aligned
    /\ align_of(target) > 1
    /\ result.reason = "NotEnoughBytes"

SingleValueCall ==
    \/ op \in {"base::from_bytes_pedantic", "full::transmute_one_pedantic"}
    \/ (guard = "SingleValueGuard" /\ op \in FullManyOps \cup BaseManyOps)

\* C6: on an aligned slice the exact single-value operations are Ok, with
\* the one value made of the slice's E bytes, iff L = E; NotEnoughBytes iff
\* L < E; InexactByteCount iff L > E.
C6_SingleValueExact ==
    (SingleValueCall /\ Aligned) =>
        /\ result.tag = "Ok" <=> L = E
        /\ result.tag = "Ok" => result.elems = <<input.bytes>>
        /\ result.reason = "NotEnoughBytes" <=> L < E
        /\ result.reason = "InexactByteCount" <=> L > E
        /\ result.tag = "Err" => (result.required = E /\ result.actual = L)

C6_Witness ==
    /\ op = "full::transmute_one_pedantic"
    /\ result.tag = "Ok"
    /\ E = 2
    /\ align_of(target) > 1
    /\ result.elems = <<input.bytes>>

\* The calls for which the single-many guard decides the length.
SingleManyCall ==
    \/ op \in {"base::from_bytes", "full::transmute_one"}
    \/ (guard = "SingleManyGuard" /\ op \in FullManyOps \cup BaseManyOps)

\* C7: on an aligned slice the lenient operations are Ok iff L >= E:
\* from_bytes and transmute_one give the value made of the first E bytes,
\* transmute_many::<T, SingleManyGuard> gives L div E elements; for L < E
\* they are NotEnoughBytes, and they are never InexactByteCount.
C7_SingleManyLenient ==
    (SingleManyCall /\ Aligned) =>
        /\ result.tag = "Ok" <=> L >= E
        /\ (result.tag = "Ok" /\ result.kind = "value") =>
              result.elems = <<SubSeq(input.bytes, 1, E)>>
        /\ (result.tag = "Ok" /\ result.kind = "view") =>
              (Len(result.elems) = L \div E /\ ElemsInInputOrder)
        /\ L < E => result = GuardError("NotEnoughBytes", E, L)
        /\ result.reason # "InexactByteCount"

C7_Witness ==
    /\ op = "full::transmute_one"
    /\ result.tag = "Ok"
    /\ L > E
    /\ E > 1
    /\ result.elems = <<SubSeq(input.bytes, 1, E)>>

\* The checked calls with the permissive guard.
FullPermissiveCall ==
    /\ guard = "PermissiveGuard"
    /\ op \in FullManyOps

\* C8: base::transmute_many_permissive never reaches its expect panic and
\* its view has exactly L div E elements (on an aligned slice it always
\* returns one); the checked permissive views are an error iff the slice is
\* unaligned, that error being Unaligned, and have L div E elements
\* otherwise.
C8_PermissiveNeverFails ==
    /\ op = "base::transmute_many_permissive" =>
          /\ result.tag # "Panic"
          /\ result.tag # "Err"
          /\ Aligned => result.tag = "Ok"
          /\ result.tag = "Ok" =>
                (Len(result.elems) = L \div E /\ ElemsInInputOrder)
    /\ FullPermissiveCall =>
          /\ result.tag = "Err" <=> ~Aligned
          /\ result.tag = "Err" => result = UnalignedError
          /\ result.tag # "Err" =>
                /\ result.tag = "Ok"
                /\ Len(result.elems) = L \div E
                /\ ElemsInInputOrder

C8_Witness ==
    /\ op = "base::transmute_many_permissive"
    /\ result.tag = "Ok"
    /\ 0 < L
    /\ L < E
    /\ result.elems = <<>>

\* ------------------------------------------------------ vector properties
SameLayout == size_of(vec.elem) = size_of(vtarget) /\ align_of(vec.elem) = align_of(vtarget)

\* C9: full::transmute_vec returns an error iff the sizes or the alignments
\* of S and T differ; the error is IncompatibleVecTarget and carries the
\* original vector: same pointer, length, capacity, element type and
\* contents, still the one owner of the storage, none of whose parts was
\* read into a new handle.
C9_VecErrorKeepsOriginal ==
    vpc = "done" =>
        /\ vresult.tag = "Err" <=>
              (size_of(vec.elem) # size_of(vtarget) \/ align_of(vec.elem) # align_of(vtarget))
        /\ vresult.tag = "Err" =>
              /\ vresult.reason = "IncompatibleVecTarget"
              /\ vresult.vec = vec
              /\ Contents(vresult.vec, heap) = heap
              /\ owners = 1
              /\ parts = NoParts

C9_Witness ==
    /\ vpc = "done"
    /\ vresult.tag = "Err"
    /\ size_of(vec.elem) = size_of(vtarget)
    /\ align_of(vec.elem) # align_of(vtarget)
    /\ vec.len = 2
    /\ vec.cap = 3
    /\ vresult.vec = vec

LastCall == history[Len(history)]

\* C10: when S and T have the same size and alignment, full::transmute_vec
\* is Ok and its vector has the pointer, the length and the capacity of the
\* input, element type T and the same bytes as contents, and is the one
\* owner of the storage; transmuting S -> T and then T -> S gives back a
\* vector equal to the original.
C10_VecRoundTrip ==
    /\ (vpc = "done" /\ SameLayout) =>
          /\ vresult.tag = "Ok"
          /\ vresult.vec.ptr = vec.ptr
          /\ vresult.vec.len = vec.len
          /\ vresult.vec.cap = vec.cap
          /\ vresult.vec.elem = vtarget
          /\ Contents(vresult.vec, heap) = Contents(vec, heap)
          /\ Contents(vresult.vec, heap) = heap
          /\ owners = 1
    /\ (/\ vpc = "done"
        /\ history # <<>>
        /\ vresult.tag = "Ok"
        /\ LastCall.tag = "Ok"
        /\ vtarget = LastCall.from.elem) =>
          vresult.vec = LastCall.from

C10_Witness ==
    /\ vpc = "done"
    /\ history # <<>>
    /\ vresult.tag = "Ok"
    /\ LastCall.tag = "Ok"
    /\ vtarget = LastCall.from.elem
    /\ LastCall.to # LastCall.from.elem
    /\ vresult.vec = LastCall.from
    /\ vec.len = 2
    /\ vec.cap = 3
    /\ size_of(vtarget) = 2

\* --------------------------------------------------- alignment properties
AlignOps == {"align::check_alignment", "align::check_alignment_mut"}

\* C11: the alignment check of a slice at address A for a target of
\* alignment K is Ok iff A mod K = 0 and Unaligned otherwise; a slice that
\* passes for K passes for every target type whose alignment divides K
\* (alignment-1 targets always pass), on its own and as the first step of
\* the checked many-element view, which reports Unaligned iff A mod K # 0.
C11_AlignmentCheck ==
    /\ op \in AlignOps =>
          /\ result = OkUnit <=> input.addr % align_of(target) = 0
          /\ result # OkUnit => result = UnalignedError
          /\ result = OkUnit =>
                \A T2 \in Types :
                    align_of(target) % align_of(T2) = 0 =>
                        /\ check_alignment(T2, input) = OkUnit
                        /\ check_alignment_mut(T2, input) = OkUnit
                        /\ full_transmute_many(T2, "PermissiveGuard", input).tag = "Ok"
          /\ \A T1 \in Types :
                align_of(T1) = 1 => check_alignment(T1, input) = OkUnit
    /\ op \in FullManyOps =>
          (result.reason = "Unaligned" <=> input.addr % align_of(target) # 0)

\* The slice of smoke_check_alignment_from_8: aligned for an 8-byte type.
C11_Witness ==
    /\ op = "align::check_alignment"
    /\ result = OkUnit
    /\ align_of(target) = 8
    /\ input.addr = 8
    /\ L > 0

\* --------------------------------------------------- ownership properties
\* C12: in base::transmute_vec and in full::transmute_vec the source handle
\* is forgotten before the destination handle is built: at every step at
\* most one live handle owns the storage, none between forget and
\* from_raw_parts (when no destination exists yet), exactly one after a
\* completed call, success or error; the storage is released at most once,
\* and only by dropping that one handle after the call.
C12_SingleOwner ==
    /\ owners \in {0, 1}
    /\ released \in {0, 1}
    /\ vpc \in {"call", "parts", "base_call", "base_parts"} =>
          (owners = 1 /\ released = 0)
    /\ vpc \in {"forgotten", "base_forgotten"} =>
          (owners = 0 /\ released = 0 /\ vresult = NoVecResult)
    /\ vpc \in {"done", "base_done"} =>
          (owners = 1 /\ released = 0 /\ vresult.tag \in {"Ok", "Err"})
    /\ vpc \in {"dropped", "ub"} =>
          (owners = 0 /\ released = 1)

\* A base::transmute_vec to a type of another size has completed and the
\* vector it returned has been dropped.
C12_Witness ==
    /\ vpc = "dropped"
    /\ released = 1
    /\ owners = 0
    /\ vresult.tag = "Ok"
    /\ size_of(vresult.vec.elem) # size_of(vec.elem)
    /\ vresult.vec.len # vec.len
    /\ vec.len = 2

\* C13: base::transmute_vec from S to T returns a vector at the same
\* pointer with new_len = floor(len * size_of(S) / size_of(T)) and
\* new_capacity = floor(capacity * size_of(S) / size_of(T)); so
\* new_len <= new_capacity, new_len * size_of(T) <= len * size_of(S) and
\* new_capacity * size_of(T) <= capacity * size_of(S): its contents are
\* leading bytes of the source's contents.
C13_VecLengthScaling ==
    vpc = "base_done" =>
        LET sS == size_of(vec.elem)
            sT == size_of(vtarget)
            new == vresult.vec
        IN  /\ vresult.tag = "Ok"
            /\ new.ptr = vec.ptr
            /\ new.elem = vtarget
            /\ new.len = (vec.len * sS) \div sT
            /\ new.cap = (vec.cap * sS) \div sT
            /\ new.len <= new.cap
            /\ new.len * sT <= vec.len * sS
            /\ new.cap * sT <= vec.cap * sS
            /\ vec.len * sS - new.len * sT < sT
            /\ vec.cap * sS - new.cap * sT < sT
            /\ Contents(new, heap) = SubSeq(heap, 1, new.len * sT)

\* Rounding down at work: 2 elements of 2 bytes as elements of 3 bytes.
C13_Witness ==
    /\ vpc = "base_done"
    /\ (vec.len * size_of(vec.elem)) % size_of(vtarget) # 0
    /\ vresult.vec.len >= 1
    /\ vec.len < vec.cap
    /\ vresult.vec.len < vresult.vec.cap

====
